---------------------------- MODULE Spec2Model ----------------------------
(***************************************************************************)
(* Broker-ledger pipeline of the stockvision dashboard: the CSV parsers,   *)
(* the per-broker aggregation and the search orchestration of the          *)
(* useBrokerageData hook and of the older dashboard components.            *)
(*                                                                         *)
(* Text is a sequence of one-symbol strings.  The symbols are the ASCII    *)
(* characters the parsers look at, plus one symbol for each of the words   *)
(* the code searches for:                                                  *)
(*    "LF" line feed, "CR" carriage return, "Q" the double quote,          *)
(*    "XH" = xu-hao (serial number), "QS" = quan-shang (broker),           *)
(*    "JG" = jia-ge (price), "MM" = the rest of the OTC report title       *)
(*    that follows quan-shang.                                             *)
(* Prices and amounts are counted in hundredths (the tick of the market);  *)
(* a JavaScript number is a record [nan, v].  Where the rounding of the    *)
(* Number type matters (SpecOrder) the amounts are binary64 numbers, bit   *)
(* by bit.  SpecLive runs searches and file uploads side by side under     *)
(* weak fairness of what the browser owes the page.                        *)
(***************************************************************************)
EXTENDS Integers, Sequences, FiniteSets, TLC

VARIABLES
    text,       \* SpecParse: the decoded text handed to a parser
    parsedBy,   \* SpecParse: which parser has run ("none" before)
    rows,       \* SpecParse: the rows the parser returned
    rawRows,    \* SpecAgg: the argument of processStockData
    aggPc,      \* SpecAgg: "start" before the call, "returned" after
    result,     \* SpecAgg: the return value of processStockData
    again,      \* SpecAgg: the return value of a second call on result.details
    archive,    \* SpecLocate: the entry names of one date's archive
    locDate,    \* SpecLocate: the date searched
    located,    \* SpecLocate: which locator ran and the file it selected
    dates,      \* hook state: the date index, newest first
    selectedDate, \* state of the single-date dashboard, 0 for ''
    startDate,  \* hook state: 0 is the empty string
    endDate,    \* hook state: 0 is the empty string
    stockCode,  \* hook state
    loading,    \* hook state
    error,      \* hook state
    data,       \* hook state: data.set is FALSE for null
    zipCache,   \* hook state: date -> the query that loaded the handle, 0 for none
    world,      \* the server: date -> what data/chips/{date}.zip is
    queries,    \* the calls of handleSearch: their locals and position
    uploads,    \* the calls of handleFileUpload: the file and the position
    bytes,      \* SpecDecode: the bytes of a file
    decoded     \* SpecDecode: which decoding ran and the text it gave

parseVars == <<text, parsedBy, rows>>
aggVars == <<rawRows, aggPc, result, again>>
locVars == <<archive, locDate, located>>
hookVars == <<dates, selectedDate, startDate, endDate, stockCode, loading, error, data,
              zipCache, world, queries, uploads>>
decVars == <<bytes, decoded>>
vars == <<parseVars, aggVars, locVars, hookVars, decVars>>

-----------------------------------------------------------------------------
(* JavaScript numbers *)

Num(v) == [nan |-> FALSE, v |-> v]
NaN == [nan |-> TRUE, v |-> 0]

\* x || 0 on a number: NaN and 0 are falsy
OrZero(x) == IF x.nan THEN 0 ELSE x.v

-----------------------------------------------------------------------------
(* Strings *)

Digits == {"0", "1", "2", "3", "4", "5", "6", "7", "8", "9"}

DigitVal(c) ==
    CASE c = "0" -> 0 [] c = "1" -> 1 [] c = "2" -> 2 [] c = "3" -> 3
      [] c = "4" -> 4 [] c = "5" -> 5 [] c = "6" -> 6 [] c = "7" -> 7
      [] c = "8" -> 8 [] c = "9" -> 9

\* white space of String.prototype.trim and of the number parsers
IsWs(c) == c \in {" ", "CR", "LF"}

RECURSIVE TrimLeft(_)
TrimLeft(s) ==
    IF s # <<>> /\ IsWs(Head(s)) THEN TrimLeft(Tail(s)) ELSE s

RECURSIVE TrimRight(_)
TrimRight(s) ==
    IF s # <<>> /\ IsWs(s[Len(s)]) THEN TrimRight(SubSeq(s, 1, Len(s) - 1)) ELSE s

\* String.prototype.trim
Trim(s) == TrimRight(TrimLeft(s))

\* s.split(sep) for a one-symbol separator: always at least one part
RECURSIVE SplitOn(_, _, _, _)
SplitOn(s, sep, cur, acc) ==
    IF s = <<>> THEN Append(acc, cur)
    ELSE IF Head(s) = sep THEN SplitOn(Tail(s), sep, <<>>, Append(acc, cur))
    ELSE SplitOn(Tail(s), sep, Append(cur, Head(s)), acc)

\* a CR directly before the LF belongs to the separator
DropCR(l) ==
    IF l # <<>> /\ l[Len(l)] = "CR" THEN SubSeq(l, 1, Len(l) - 1) ELSE l

\* text.split(/\r?\n/): the last part keeps a trailing CR, it precedes no LF
SplitLines(s) ==
    LET raw == SplitOn(s, "LF", <<>>, <<>>)
    IN  [i \in 1..Len(raw) |-> IF i < Len(raw) THEN DropCR(raw[i]) ELSE raw[i]]

\* lines.filter(line => line.trim() !== '')
NonBlank(ls) == SelectSeq(ls, LAMBDA l : Trim(l) # <<>>)

\* s.includes(pat)
Includes(s, pat) ==
    \E i \in 1..(Len(s) - Len(pat) + 1) : SubSeq(s, i, i + Len(pat) - 1) = pat

\* p.replace(/^"|"$/g, ''): at most one quote off each end
StripQuotes(p) ==
    LET a == IF p # <<>> /\ Head(p) = "Q" THEN Tail(p) ELSE p
    IN  IF a # <<>> /\ a[Len(a)] = "Q" THEN SubSeq(a, 1, Len(a) - 1) ELSE a

\* the longest prefix of digits
RECURSIVE DigitPrefix(_)
DigitPrefix(s) ==
    IF s # <<>> /\ Head(s) \in Digits THEN <<Head(s)>> \o DigitPrefix(Tail(s))
    ELSE <<>>

RECURSIVE DecValue(_, _)
DecValue(ds, acc) ==
    IF ds = <<>> THEN acc ELSE DecValue(Tail(ds), 10 * acc + DigitVal(Head(ds)))

\* sign and rest of a trimmed numeric string
SignOf(s) == IF s # <<>> /\ Head(s) = "-" THEN -1 ELSE 1
Unsigned(s) == IF s # <<>> /\ Head(s) \in {"-", "+"} THEN Tail(s) ELSE s

\* parseInt(s): leading white space, a sign, then the decimal digits there are
JsParseInt(s) ==
    LET t == TrimLeft(s)
        ds == DigitPrefix(Unsigned(t))
    IN  IF ds = <<>> THEN NaN ELSE Num(SignOf(t) * DecValue(ds, 0))

\* the first two decimals, in hundredths
Hundredths(fs) ==
    IF fs = <<>> THEN 0
    ELSE IF Len(fs) = 1 THEN 10 * DigitVal(fs[1])
    ELSE 10 * DigitVal(fs[1]) + DigitVal(fs[2])

\* parseFloat(s): leading white space, a sign, digits, a point, digits;
\* NaN unless a digit is read.  The value is in hundredths.
JsParseFloat(s) ==
    LET t == TrimLeft(s)
        u == Unsigned(t)
        ip == DigitPrefix(u)
        rest == SubSeq(u, Len(ip) + 1, Len(u))
        fp == IF rest # <<>> /\ Head(rest) = "." THEN DigitPrefix(Tail(rest)) ELSE <<>>
    IN  IF ip = <<>> /\ fp = <<>> THEN NaN
        ELSE Num(SignOf(t) * (100 * DecValue(ip, 0) + Hundredths(fp)))

-----------------------------------------------------------------------------
(* The parsers of the hook *)

\* the object literal pushed by both parsers
Row(broker, p, b, s) ==
    [broker |-> broker,
     price |-> JsParseFloat(p),
     buyVol |-> OrZero(JsParseInt(b)),
     sellVol |-> OrZero(JsParseInt(s))]

\* mutant of LeftRows: five fields are not enough
LeftRowsOverFive(parts) ==
    IF Len(parts) > 5 /\ Trim(parts[2]) # <<>>
    THEN <<Row(Trim(parts[2]), parts[3], parts[4], parts[5])>>
    ELSE <<>>

\* the left block of a ledger line, fields 0-4
LeftRows(parts) ==
    IF Len(parts) >= 5 /\ Trim(parts[2]) # <<>>
    THEN <<Row(Trim(parts[2]), parts[3], parts[4], parts[5])>>
    ELSE <<>>

\* the right block of a ledger line, fields 6-10
RightRows(parts) ==
    IF Len(parts) >= 11 /\ Trim(parts[8]) # <<>>
    THEN <<Row(Trim(parts[8]), parts[9], parts[10], parts[11])>>
    ELSE <<>>

\* the body of the for loop of parseDoubleColumnCSV
DoubleLineRows(line) ==
    LET parts == SplitOn(line, ",", <<>>, <<>>)
    IN  LeftRows(parts) \o RightRows(parts)

RECURSIVE DoubleLoop(_, _, _)
DoubleLoop(lines, i, acc) ==
    IF i > Len(lines) THEN acc
    ELSE DoubleLoop(lines, i + 1, acc \o DoubleLineRows(lines[i]))

\* parseDoubleColumnCSV: the loop starts at the second non-blank line
ParseDoubleColumnCSV(t) == DoubleLoop(NonBlank(SplitLines(t)), 2, <<>>)

\* the header words the OTC parser looks for: xu-hao , quan-shang , jia-ge
OTCHeader == <<"XH", ",", "QS", ",", "JG">>

\* the title of an OTC report, the sniffed marker phrase
OTCMarker == <<"QS", "MM">>

\* mutant of OTCStart: the header line itself is read as data
RECURSIVE OTCStartAtHeader(_, _)
OTCStartAtHeader(lines, i) ==
    IF i > Len(lines) THEN 1
    ELSE IF Includes(lines[i], OTCHeader) THEN i
    ELSE OTCStartAtHeader(lines, i + 1)

\* startIndex of parseOTCcsv, one-based: the line after the first header line,
\* the first line when no line holds the header
RECURSIVE OTCStart(_, _)
OTCStart(lines, i) ==
    IF i > Len(lines) THEN 1
    ELSE IF Includes(lines[i], OTCHeader) THEN i + 1
    ELSE OTCStart(lines, i + 1)

\* line.split(',').map(p => p.trim().replace(/^"|"$/g, ''))
OTCParts(line) ==
    LET raw == SplitOn(line, ",", <<>>, <<>>)
    IN  [i \in 1..Len(raw) |-> StripQuotes(Trim(raw[i]))]

\* the body of the second loop of parseOTCcsv
OTCLineRows(line) ==
    LET parts == OTCParts(line)
    IN  IF Len(parts) >= 5 /\ parts[2] # <<>>
        THEN <<Row(parts[2], parts[3], parts[4], parts[5])>>
        ELSE <<>>

RECURSIVE OTCLoop(_, _, _)
OTCLoop(lines, i, acc) ==
    IF i > Len(lines) THEN acc
    ELSE OTCLoop(lines, i + 1, acc \o OTCLineRows(lines[i]))

\* parseOTCcsv
ParseOTCcsv(t) ==
    LET lines == NonBlank(SplitLines(t))
    IN  OTCLoop(lines, OTCStart(lines, 1), <<>>)

\* the file-type sniff of handleSearch
ParseDetected(t) ==
    IF Includes(t, OTCMarker) THEN ParseOTCcsv(t) ELSE ParseDoubleColumnCSV(t)

-----------------------------------------------------------------------------
(* The texts the parsers are run on *)

\* the longest text, in lines
MaxLines == 3

RECURSIVE Join(_, _)
Join(parts, sep) ==
    IF parts = <<>> THEN <<>>
    ELSE IF Len(parts) = 1 THEN parts[1]
    ELSE parts[1] \o sep \o Join(Tail(parts), sep)

Csv(fields) == Join(fields, <<",">>)

cSerial == <<"1">>
cA == <<"A">>
cPadB == <<" ", "B", " ">>
cBlank == <<" ">>
cPrice == <<"1", "0", ".", "5">>
cPrice2 == <<"2">>
cTwo == <<"2">>
cOne == <<"1">>
cThree == <<"3">>
cNeg == <<"-", "3">>
cZero == <<"0">>
cWord == <<"A">>
Quoted(c) == <<"Q">> \o c \o <<"Q">>

LeftOk == <<cSerial, cA, cPrice, cTwo, cOne>>
RightOk == <<<<>>, <<"2">>, cPadB, cPrice2, cOne, cThree>>

LineSet ==
    { cBlank,                                           \* a blank line
      OTCMarker,                                        \* the OTC report title
      Csv(<<<<"XH">>, <<"QS">>, <<"JG">>, cWord, cWord>>),   \* the column header
      Csv(<<cSerial, cA, cPrice, cTwo>>),               \* four fields
      Csv(LeftOk) \o <<"CR">>,                          \* 1,A,10.5,2,1 and a CR
      Csv(<<cSerial, cPadB, <<>>, cNeg, cWord>>),       \* 1, B ,,-3,A
      Csv(<<cSerial, cBlank, cPrice, cTwo, cOne>>),     \* blank broker
      Csv(LeftOk \o RightOk),                           \* eleven fields
      Csv(<<cSerial, <<>>, cPrice, cTwo, cOne>> \o RightOk),  \* right block only
      Csv(LeftOk \o SubSeq(RightOk, 1, 5)),             \* ten fields
      Csv(<<Quoted(cSerial), Quoted(cA), Quoted(cPrice), Quoted(cTwo), Quoted(cZero)>>),
      Csv(<<Quoted(cSerial), Quoted(<<>>), Quoted(cPrice), Quoted(cTwo), Quoted(cZero)>>),
      Csv(<<Quoted(cSerial), Quoted(cBlank), Quoted(<<"Q">>), Quoted(cNeg), cBlank>>) }

LineSeqs == UNION { [1..n -> LineSet] : n \in 0..MaxLines }

\* the lines are joined by LF; the line that ends in CR gives the CR LF ending
Texts == { Join(ls, <<"LF">>) : ls \in LineSeqs }

-----------------------------------------------------------------------------
(* SpecParse: a text is drawn, then one of the parsers is applied to it *)

\* the parser variables while another specification runs
IdleParse ==
    /\ text = <<>>
    /\ parsedBy = "none"
    /\ rows = <<>>

DrawText ==
    /\ text \in Texts
    /\ parsedBy = "none"
    /\ rows = <<>>

RunDouble ==
    /\ parsedBy = "none"
    /\ rows' = ParseDoubleColumnCSV(text)
    /\ parsedBy' = "double"
    /\ UNCHANGED <<text, aggVars, locVars, hookVars, decVars>>

RunOTC ==
    /\ parsedBy = "none"
    /\ rows' = ParseOTCcsv(text)
    /\ parsedBy' = "otc"
    /\ UNCHANGED <<text, aggVars, locVars, hookVars, decVars>>

RunDetected ==
    /\ parsedBy = "none"
    /\ rows' = ParseDetected(text)
    /\ parsedBy' = "search"
    /\ UNCHANGED <<text, aggVars, locVars, hookVars, decVars>>

UploadRowsNoRetry(t) == ParseDetected(t)

\* the rows of handleFileUpload: the parser the marker selects and, when it
\* gives no row and the marker is absent, the rows of parseOTCcsv if any
UploadRows(t) ==
    LET rs == ParseDetected(t)
    IN  IF rs = <<>> /\ ~Includes(t, OTCMarker)
        THEN LET retryRows == ParseOTCcsv(t)
             IN  IF retryRows # <<>> THEN retryRows ELSE rs
        ELSE rs

RunUpload ==
    /\ parsedBy = "none"
    /\ rows' = UploadRows(text)
    /\ parsedBy' = "upload"
    /\ UNCHANGED <<text, aggVars, locVars, hookVars, decVars>>



-----------------------------------------------------------------------------
(* Arithmetic of the amounts: NaN is absorbing *)

FAdd(a, b) == IF a.nan \/ b.nan THEN NaN ELSE Num(a.v + b.v)
FSub(a, b) == IF a.nan \/ b.nan THEN NaN ELSE Num(a.v - b.v)

\* vol * price, vol an integer
FMul(vol, price) == IF price.nan THEN NaN ELSE Num(vol * price.v)

RECURSIVE Gcd(_, _)
Gcd(a, b) == IF b = 0 THEN a ELSE Gcd(b, a % b)

Abs(x) == IF x < 0 THEN -x ELSE x

\* a quotient is kept as the reduced fraction n / d, d > 0
Ratio(n, d) == [nan |-> FALSE, n |-> n, d |-> d]
RatioNaN == [nan |-> TRUE, n |-> 0, d |-> 1]
RatioZero == Ratio(0, 1)

\* amt / vol for vol > 0
FDiv(amt, vol) ==
    IF amt.nan THEN RatioNaN
    ELSE LET g == Gcd(Abs(amt.v), vol)
         IN  Ratio(amt.v \div g, vol \div g)

-----------------------------------------------------------------------------
(* The amounts as the Number type holds them: binary64, round to nearest, ties
   to even.  Only values that are not negative are needed.  m is the
   significand, Precision bits from the most significant one, and the value is
   m * 2^e; zero has no bits. *)

Precision == 53

F64Zero == [e |-> 0, m |-> <<>>]

Zeros(n) == [i \in 1..n |-> 0]

RECURSIVE StripZeros(_)
StripZeros(b) == IF b # <<>> /\ Head(b) = 0 THEN StripZeros(Tail(b)) ELSE b

\* a natural from its bits and back
RECURSIVE BitsNat(_)
BitsNat(b) == IF b = <<>> THEN 0 ELSE 2 * BitsNat(SubSeq(b, 1, Len(b) - 1)) + b[Len(b)]

RECURSIVE NatBits(_)
NatBits(k) == IF k = 0 THEN <<>> ELSE Append(NatBits(k \div 2), k % 2)

\* x + y + c for two bit sequences of one length, the carry out in front; the
\* sequences are added sixteen bits at a time from the right
RECURSIVE AddBits(_, _, _)
AddBits(x, y, c) ==
    LET n == Len(x)
    IN  IF n <= 16
        THEN LET q == NatBits(BitsNat(x) + BitsNat(y) + c)
             IN  Zeros(n + 1 - Len(q)) \o q
        ELSE LET low == AddBits(SubSeq(x, n - 15, n), SubSeq(y, n - 15, n), c)
                 high == AddBits(SubSeq(x, 1, n - 16), SubSeq(y, 1, n - 16), low[1])
             IN  high \o Tail(low)

\* the exact sum of two naturals given by their bits
SumBits(x, y) ==
    LET n == IF Len(x) > Len(y) THEN Len(x) ELSE Len(y)
    IN  StripZeros(AddBits(Zeros(n - Len(x)) \o x, Zeros(n - Len(y)) \o y, 0))

\* the binary64 nearest to bits * 2^e; sticky: the exact value lies above it
RoundF64(bits, e, sticky) ==
    LET b == StripZeros(bits)
        n == Len(b)
    IN  IF b = <<>> THEN F64Zero
        ELSE IF n <= Precision
        THEN [e |-> e - (Precision - n), m |-> b \o Zeros(Precision - n)]
        ELSE LET keep == SubSeq(b, 1, Precision)
                 rest == SubSeq(b, Precision + 1, n)
                 more == sticky \/ \E i \in 2..Len(rest) : rest[i] = 1
                 up == rest[1] = 1 /\ (more \/ keep[Precision] = 1)
                 inc == IF up THEN SumBits(keep, <<1>>) ELSE keep
             IN  IF Len(inc) > Precision
                 THEN [e |-> e + (n - Precision) + 1, m |-> SubSeq(inc, 1, Precision)]
                 ELSE [e |-> e + (n - Precision), m |-> inc]

\* a + b of two numbers: the exact sum, rounded once
F64Add(a, b) ==
    IF a.m = <<>> THEN b
    ELSE IF b.m = <<>> THEN a
    ELSE LET lo == IF a.e < b.e THEN a.e ELSE b.e
         IN  RoundF64(SumBits(a.m \o Zeros(a.e - lo), b.m \o Zeros(b.e - lo)), lo, FALSE)

RECURSIVE TimesBits(_, _)
TimesBits(m, k) == IF k = 0 THEN <<>> ELSE SumBits(m, TimesBits(m, k - 1))

\* vol * price for a volume that is a natural: the exact product, rounded once
F64Mul(vol, price) == RoundF64(TimesBits(price.m, vol), price.e, FALSE)

\* the bits of r / d behind those given, sixteen at a time, until the rounding
\* is decided
RECURSIVE FractionBits(_, _, _)
FractionBits(r, d, bits) ==
    IF Len(StripZeros(bits)) >= Precision + 2 THEN [bits |-> bits, sticky |-> r # 0]
    ELSE LET q == NatBits((r * 2^16) \div d)
         IN  FractionBits((r * 2^16) % d, d, bits \o Zeros(16 - Len(q)) \o q)

\* parseFloat of a decimal that denotes n / d: the nearest binary64
F64OfRatio(n, d) ==
    IF n = 0 THEN F64Zero
    ELSE LET whole == NatBits(n \div d)
             f == FractionBits(n % d, d, whole)
         IN  RoundF64(f.bits, Len(whole) - Len(f.bits), f.sticky)

-----------------------------------------------------------------------------
(* processStockData *)

\* the entry set on the first sight of a broker
ZeroSummary(broker) ==
    [broker |-> broker, buyVol |-> 0, sellVol |-> 0,
     buyAmt |-> Num(0), sellAmt |-> Num(0),
     netVol |-> 0, netAmt |-> Num(0),
     avgBuyPrice |-> RatioZero, avgSellPrice |-> RatioZero]

\* mutant of MapHas: the broker is never found
MapHasNever(m, broker) == FALSE

\* brokerMap.has(broker); the map is the sequence of its values in insertion order
MapHas(m, broker) == \E i \in 1..Len(m) : m[i].broker = broker

MapIndex(m, broker) == CHOOSE i \in 1..Len(m) : m[i].broker = broker

\* mutant of Accumulate: = in place of +=
AccumulateOverwrite(b, row) ==
    [b EXCEPT !.buyVol = row.buyVol,
              !.sellVol = row.sellVol,
              !.buyAmt = FMul(row.buyVol, row.price),
              !.sellAmt = FMul(row.sellVol, row.price)]

\* the four += of the forEach callback
Accumulate(b, row) ==
    [b EXCEPT !.buyVol = @ + row.buyVol,
              !.sellVol = @ + row.sellVol,
              !.buyAmt = FAdd(@, FMul(row.buyVol, row.price)),
              !.sellAmt = FAdd(@, FMul(row.sellVol, row.price))]

\* one call of the forEach callback
FoldRow(m, row) ==
    LET m1 == IF MapHas(m, row.broker) THEN m ELSE Append(m, ZeroSummary(row.broker))
        i == MapIndex(m1, row.broker)
    IN  [m1 EXCEPT ![i] = Accumulate(@, row)]

RECURSIVE FoldRows(_, _)
FoldRows(m, rs) ==
    IF rs = <<>> THEN m ELSE FoldRows(FoldRow(m, Head(rs)), Tail(rs))

\* mutant of Finalize: the net figures are sell minus buy
FinalizeSwapped(b) ==
    [b EXCEPT !.netVol = b.sellVol - b.buyVol,
              !.netAmt = FSub(b.sellAmt, b.buyAmt),
              !.avgBuyPrice = IF b.buyVol > 0 THEN FDiv(b.buyAmt, b.buyVol) ELSE RatioZero,
              !.avgSellPrice = IF b.sellVol > 0 THEN FDiv(b.sellAmt, b.sellVol) ELSE RatioZero]

\* mutant of Finalize: the sell average divides by the buy volume
FinalizeWrongVolume(b) ==
    [b EXCEPT !.netVol = b.buyVol - b.sellVol,
              !.netAmt = FSub(b.buyAmt, b.sellAmt),
              !.avgBuyPrice = IF b.buyVol > 0 THEN FDiv(b.buyAmt, b.buyVol) ELSE RatioZero,
              !.avgSellPrice = IF b.buyVol > 0 THEN FDiv(b.sellAmt, b.buyVol) ELSE RatioZero]

\* the callback of the map over brokerMap.values()
Finalize(b) ==
    [b EXCEPT !.netVol = b.buyVol - b.sellVol,
              !.netAmt = FSub(b.buyAmt, b.sellAmt),
              !.avgBuyPrice = IF b.buyVol > 0 THEN FDiv(b.buyAmt, b.buyVol) ELSE RatioZero,
              !.avgSellPrice = IF b.sellVol > 0 THEN FDiv(b.sellAmt, b.sellVol) ELSE RatioZero]

\* mutant of CompareNet: ascending
CompareNetAscending(a, b) == a.netVol - b.netVol

\* the comparator of summary.sort: negative when a goes first
CompareNet(a, b) == b.netVol - a.netVol

\* x goes behind every entry it does not precede: the sort is stable
RECURSIVE InsertSorted(_, _)
InsertSorted(sorted, x) ==
    IF sorted = <<>> THEN <<x>>
    ELSE IF CompareNet(x, Head(sorted)) < 0 THEN <<x>> \o sorted
    ELSE <<Head(sorted)>> \o InsertSorted(Tail(sorted), x)

RECURSIVE Reverse(_)
Reverse(q) == IF q = <<>> THEN <<>> ELSE Append(Reverse(Tail(q)), Head(q))

RECURSIVE SortSummary(_, _)
SortSummary(todo, sorted) ==
    IF todo = <<>> THEN sorted
    ELSE SortSummary(Tail(todo), InsertSorted(sorted, Head(todo)))

ProcessStockDataReordersRows(rs) ==
    LET m == FoldRows(<<>>, rs)
        summary == [i \in 1..Len(m) |-> Finalize(m[i])]
    IN  [details |-> Reverse(rs), summary |-> SortSummary(summary, <<>>)]

ProcessStockData(rs) ==
    LET m == FoldRows(<<>>, rs)
        summary == [i \in 1..Len(m) |-> Finalize(m[i])]
    IN  [details |-> rs, summary |-> SortSummary(summary, <<>>)]

-----------------------------------------------------------------------------
(* SpecAgg: a row sequence is drawn, then processStockData is applied *)

\* the longest row sequence
MaxRecs == 3

BrokerNames == { <<"A">>, <<"B">> }
Prices == { NaN, Num(1050), Num(200) }
VolPairs == { <<0, 0>>, <<2, 1>>, <<-3, 0>>, <<1, 5>> }

\* rows as the parsers emit them
RowSet ==
    { [broker |-> b, price |-> p, buyVol |-> v[1], sellVol |-> v[2]] :
        b \in BrokerNames, p \in Prices, v \in VolPairs }

NoResult == [details |-> <<>>, summary |-> <<>>]

\* the aggregator variables while another specification runs
IdleAgg ==
    /\ rawRows = <<>>
    /\ aggPc = "start"
    /\ result = NoResult
    /\ again = NoResult

DrawRows ==
    /\ rawRows \in UNION { [1..n -> RowSet] : n \in 0..MaxRecs }
    /\ aggPc = "start"
    /\ result = NoResult
    /\ again = NoResult

Aggregate ==
    /\ aggPc = "start"
    /\ result' = ProcessStockData(rawRows)
    /\ aggPc' = "returned"
    /\ UNCHANGED <<rawRows, again, parseVars, locVars, hookVars, decVars>>

\* processStockData is called on the details it returned
AggregateAgain ==
    /\ aggPc = "returned"
    /\ again' = ProcessStockData(result.details)
    /\ aggPc' = "again"
    /\ UNCHANGED <<rawRows, result, parseVars, locVars, hookVars, decVars>>

\* rows with prices that binary64 does not hold exactly: 10.1, 10.2 and 10.3
OrderPrices == { Num(1010), Num(1020), Num(1030) }
OrderVolPairs == { <<1, 0>>, <<2, 1>> }

OrderRowSet ==
    { [broker |-> b, price |-> p, buyVol |-> v[1], sellVol |-> v[2]] :
        b \in BrokerNames, p \in OrderPrices, v \in OrderVolPairs }

DrawOrderRows ==
    /\ rawRows \in UNION { [1..n -> OrderRowSet] : n \in 0..MaxRecs }
    /\ aggPc = "start"
    /\ result = NoResult
    /\ again = NoResult

Orders(n) == { p \in [1..n -> 1..n] : \A i, j \in 1..n : p[i] = p[j] => i = j }

\* processStockData is called on the same rows in another order
AggregatePermuted ==
    /\ aggPc = "returned"
    /\ \E p \in Orders(Len(rawRows)) :
          again' = ProcessStockData([i \in 1..Len(rawRows) |-> rawRows[p[i]]])
    /\ aggPc' = "permuted"
    /\ UNCHANGED <<rawRows, result, parseVars, locVars, hookVars, decVars>>

\* row.buyVol * row.price and row.sellVol * row.price of each row, the price
\* being what parseFloat made of its decimal (the model counts in hundredths)
Products64 ==
    [r \in OrderRowSet |->
        [buy |-> F64Mul(r.buyVol, F64OfRatio(r.price.v, 100)),
         sell |-> F64Mul(r.sellVol, F64OfRatio(r.price.v, 100))]]

\* the two amounts of a broker before its first row
ZeroAmounts == [b \in BrokerNames |-> [buyAmt |-> F64Zero, sellAmt |-> F64Zero]]

\* b.buyAmt += row.buyVol * row.price; b.sellAmt += row.sellVol * row.price
Accumulate64(a, row) ==
    [buyAmt |-> F64Add(a.buyAmt, Products64[row].buy),
     sellAmt |-> F64Add(a.sellAmt, Products64[row].sell)]

\* the amounts of every broker after the forEach, as the Number type holds them
RECURSIVE Amounts64(_, _)
Amounts64(acc, rs) ==
    IF rs = <<>> THEN acc
    ELSE Amounts64([acc EXCEPT ![Head(rs).broker] = Accumulate64(@, Head(rs))],
                   Tail(rs))

-----------------------------------------------------------------------------
(* The ledger locator *)

\* the offset of the Republic-of-China calendar
RocOffset == 1911

\* `${parseInt(date.substring(0, 4)) - 1911}${date.substring(4)}`, dates being
\* eight-digit numbers: the month and day keep their four digits
RocDate(date) == (date \div 10000 - RocOffset) * 10000 + (date % 10000)

\* an entry name: {dir}/{code}_{tag}.csv, dir and tag 0 when absent
Path(dir, code, tag) == [dir |-> dir, code |-> code, tag |-> tag]
NoFile == Path(-1, "", -1)

\* the five names tried, in the order of handleSearch
Form1(date, code) == Path(date, code, 0)
Form2(date, code) == Path(date, code, date)
Form3(date, code) == Path(date, code, RocDate(date))
Form4(date, code) == Path(0, code, RocDate(date))
Form5(date, code) == Path(0, code, date)

\* zip.file(fileName): the entry of that name, null when there is none
ZipFile(entries, name) == IF name \in entries THEN name ELSE NoFile

\* the locator of the hook with its fallbacks
LocateFile(entries, date, code) ==
    LET f1 == ZipFile(entries, Form1(date, code))
        f2 == IF f1 = NoFile THEN ZipFile(entries, Form2(date, code)) ELSE f1
        f3 == IF f2 = NoFile THEN ZipFile(entries, Form3(date, code)) ELSE f2
        f4 == IF f2 = NoFile /\ f3 = NoFile
              THEN ZipFile(entries, Form4(date, code)) ELSE f3
    IN  IF f4 = NoFile THEN ZipFile(entries, Form5(date, code)) ELSE f4

\* the locator of the older hook and of the dashboard components
LocateFileFolderOnly(entries, date, code) == ZipFile(entries, Form1(date, code))

-----------------------------------------------------------------------------
(* SpecLocate: an archive is drawn, then a locator is applied to it *)

TheCode == "2330"
OtherCode == "8299"

LocateDays == {20251110, 20251111}

\* the names an archive of the day may hold: the five forms and two others
Candidates(date) ==
    { Form1(date, TheCode), Form2(date, TheCode), Form3(date, TheCode),
      Form4(date, TheCode), Form5(date, TheCode),
      Form1(date, OtherCode), Path(0, TheCode, 0) }

NotLocated == [by |-> "none", file |-> NoFile]

IdleLocate ==
    /\ archive = {}
    /\ locDate = 0
    /\ located = NotLocated

DrawArchive ==
    /\ locDate \in LocateDays
    /\ archive \in SUBSET Candidates(locDate)
    /\ located = NotLocated

RunLocate ==
    /\ located.by = "none"
    /\ located' = [by |-> "hook", file |-> LocateFile(archive, locDate, TheCode)]
    /\ UNCHANGED <<archive, locDate, parseVars, aggVars, hookVars, decVars>>

RunLocateFolderOnly ==
    /\ located.by = "none"
    /\ located' = [by |-> "older", file |-> LocateFileFolderOnly(archive, locDate, TheCode)]
    /\ UNCHANGED <<archive, locDate, parseVars, aggVars, hookVars, decVars>>

-----------------------------------------------------------------------------
(* The text decoder *)

\* a character of a decoded text: an ASCII character, a character of the
\* Big5 index, a character read from UTF-8, or U+FFFD
AsciiChar(b) == [k |-> "ascii", code |-> b]
Big5Char(lead, b) == [k |-> "big5", code |-> lead * 256 + b]
Utf8Char(cp) == [k |-> "utf8", code |-> cp]
Replacement == [k |-> "fffd", code |-> 65533]

DecodeError == [ok |-> FALSE, text |-> <<>>]
Decoded(t) == [ok |-> TRUE, text |-> t]

IsBig5Lead(b) == b >= 129 /\ b <= 254
IsBig5Trail(b) == (b >= 64 /\ b <= 126) \/ (b >= 161 /\ b <= 254)

\* new TextDecoder('big5', {fatal}).decode(bs): the Big5 decoder of the
\* Encoding Standard, for lead and trail bytes whose pair is in the index.
\* An ASCII byte after a lead byte it cannot follow is decoded again.
RECURSIVE Big5Decode(_, _, _, _)
Big5Decode(bs, lead, out, fatal) ==
    IF bs = <<>>
    THEN IF lead = 0 THEN Decoded(out)
         ELSE IF fatal THEN DecodeError ELSE Decoded(Append(out, Replacement))
    ELSE LET b == Head(bs)
         IN  IF lead # 0
             THEN IF IsBig5Trail(b)
                  THEN Big5Decode(Tail(bs), 0, Append(out, Big5Char(lead, b)), fatal)
                  ELSE IF fatal THEN DecodeError
                  ELSE Big5Decode(IF b < 128 THEN bs ELSE Tail(bs), 0,
                                  Append(out, Replacement), fatal)
             ELSE IF b < 128
                  THEN Big5Decode(Tail(bs), 0, Append(out, AsciiChar(b)), fatal)
             ELSE IF IsBig5Lead(b) THEN Big5Decode(Tail(bs), b, out, fatal)
             ELSE IF fatal THEN DecodeError
             ELSE Big5Decode(Tail(bs), 0, Append(out, Replacement), fatal)

\* the bytes still needed after a UTF-8 lead byte, 0 for a byte that leads nothing
Utf8Needed(b) ==
    IF b >= 194 /\ b <= 223 THEN 1
    ELSE IF b >= 224 /\ b <= 239 THEN 2
    ELSE IF b >= 240 /\ b <= 244 THEN 3
    ELSE 0

Utf8LeadBits(b) ==
    IF b >= 240 THEN b - 240 ELSE IF b >= 224 THEN b - 224 ELSE b - 192

\* the bounds of the byte that follows the lead byte
Utf8Lower(b) == IF b = 224 THEN 160 ELSE IF b = 240 THEN 144 ELSE 128
Utf8Upper(b) == IF b = 237 THEN 159 ELSE IF b = 244 THEN 143 ELSE 191

\* new TextDecoder('utf-8').decode(bs): never fails, U+FFFD for what is malformed
RECURSIVE Utf8Decode(_, _, _, _, _, _)
Utf8Decode(bs, needed, cp, lo, hi, out) ==
    IF bs = <<>>
    THEN IF needed = 0 THEN out ELSE Append(out, Replacement)
    ELSE LET b == Head(bs)
         IN  IF needed = 0
             THEN IF b < 128
                  THEN Utf8Decode(Tail(bs), 0, 0, 128, 191, Append(out, AsciiChar(b)))
                  ELSE IF Utf8Needed(b) > 0
                  THEN Utf8Decode(Tail(bs), Utf8Needed(b), Utf8LeadBits(b),
                                  Utf8Lower(b), Utf8Upper(b), out)
                  ELSE Utf8Decode(Tail(bs), 0, 0, 128, 191, Append(out, Replacement))
             ELSE IF b < lo \/ b > hi
                  THEN Utf8Decode(bs, 0, 0, 128, 191, Append(out, Replacement))
             ELSE IF needed = 1
                  THEN Utf8Decode(Tail(bs), 0, 0, 128, 191,
                                  Append(out, Utf8Char(cp * 64 + (b - 128))))
             ELSE Utf8Decode(Tail(bs), needed - 1, cp * 64 + (b - 128), 128, 191, out)

\* the decoding of the hook: strict Big5, UTF-8 when that throws
DecodeText(bs) ==
    LET strict == Big5Decode(bs, 0, <<>>, TRUE)
    IN  IF strict.ok THEN strict.text ELSE Utf8Decode(bs, 0, 0, 128, 191, <<>>)

\* the decoding of the older hook and of the dashboard components: the Big5
\* decoder is not fatal, so it never throws and the catch is never entered
DecodeTextLoose(bs) ==
    LET loose == Big5Decode(bs, 0, <<>>, FALSE)
    IN  IF loose.ok THEN loose.text ELSE Utf8Decode(bs, 0, 0, 128, 191, <<>>)

-----------------------------------------------------------------------------
(* SpecDecode: the bytes of a file are drawn, then a decoding is applied *)

\* the longest file, in bytes
MaxBytes == 3

\* 'A', three bytes that lead and trail in Big5 (two of them lead in UTF-8),
\* a UTF-8 continuation byte that neither leads nor trails in Big5, and a byte
\* that is valid in neither encoding
ByteSet == {65, 168, 229, 233, 128, 255}

ByteSeqs == UNION { [1..n -> ByteSet] : n \in 0..MaxBytes }

NotDecoded == [by |-> "none", text |-> <<>>]

IdleDecode ==
    /\ bytes = <<>>
    /\ decoded = NotDecoded

DrawBytes ==
    /\ bytes \in ByteSeqs
    /\ decoded = NotDecoded

RunDecode ==
    /\ decoded.by = "none"
    /\ decoded' = [by |-> "hook", text |-> DecodeText(bytes)]
    /\ UNCHANGED <<bytes, parseVars, aggVars, locVars, hookVars>>

RunDecodeLoose ==
    /\ decoded.by = "none"
    /\ decoded' = [by |-> "older", text |-> DecodeTextLoose(bytes)]
    /\ UNCHANGED <<bytes, parseVars, aggVars, locVars, hookVars>>

-----------------------------------------------------------------------------
(* The hook *)

NoData == [set |-> FALSE, by |-> 0, details |-> <<>>, summary |-> <<>>]

\* the hook variables while another specification runs
IdleHook ==
    /\ dates = <<>>
    /\ selectedDate = 0
    /\ startDate = 0
    /\ endDate = 0
    /\ stockCode = ""
    /\ loading = FALSE
    /\ error = ""
    /\ data = NoData
    /\ zipCache = <<>>
    /\ world = <<>>
    /\ queries = <<>>
    /\ uploads = <<>>


\* the most dates the index lists and the most calls of handleSearch
MaxDates == 2
MaxQueries == 2

\* the most calls of handleFileUpload
MaxUploads == 1

\* the names of the files the user may pick
NoName == ""
UploadNames == { "2330.csv" }

BATCH_SIZE == 5

\* dates.json after the sort: newest first
DateIndex == [i \in 1..MaxDates |-> 20251112 - i]
DateSet == { DateIndex[i] : i \in 1..MaxDates }

\* an index one date longer than a batch, and every date of the model
BatchIndex == [i \in 1..(BATCH_SIZE + 1) |-> 20251112 - i]
BatchDateSet == { BatchIndex[i] : i \in 1..(BATCH_SIZE + 1) }
AllDates == DateSet \cup BatchDateSet
StockCodes == {TheCode}

\* the ledgers a file of the archive may hold
HeaderLine == Csv(<<<<"XH">>, <<"QS">>, <<"JG">>, cWord, cWord>>)
LedgerNoRows == HeaderLine
LedgerTwoRows == Join(<<HeaderLine, Csv(LeftOk \o RightOk)>>, <<"LF">>)
LedgerOTC ==
    Join(<<OTCMarker, OTCHeader,
           Csv(<<Quoted(cSerial), Quoted(cA), Quoted(cPrice), Quoted(cTwo), Quoted(cZero)>>)>>,
         <<"LF">>)
LedgerTexts == {LedgerNoRows, LedgerTwoRows, LedgerOTC}
SearchTexts == {LedgerNoRows, LedgerTwoRows}

\* what the server has for one date: no archive (the response is not ok), an
\* archive without the stock, or an archive whose file for the stock is named
\* by names and holds one of the ledgers
ArchiveKinds(date, names, texts) ==
    { [ok |-> FALSE, entries |-> {}, text |-> <<>>],
      [ok |-> TRUE, entries |-> {Form1(date, OtherCode)}, text |-> <<>>] }
    \cup { [ok |-> TRUE, entries |-> names, text |-> t] : t \in texts }

\* every assignment of one of the kinds to each date
Worlds(kinds) ==
    { w \in [DOMAIN kinds -> UNION { kinds[d] : d \in DOMAIN kinds }] :
        \A d \in DOMAIN kinds : w[d] \in kinds[d] }

RocNames(date) == {Form3(date, TheCode), Form5(date, TheCode)}
FolderNames(date) == {Form1(date, TheCode)}

EmptyCache == [d \in AllDates |-> 0]

IdleQuery ==
    [pc |-> "idle", code |-> "", targets |-> <<>>, next |-> 1,
     sub |-> [d \in AllDates |-> "idle"], allRows |-> <<>>, origin |-> <<>>,
     snap |-> EmptyCache, refetch |-> {}, loaded |-> {}, recached |-> {},
     during |-> {}, after |-> {}, skipped |-> {}, ignored |-> FALSE,
     outcome |-> "none"]

\* a call of handleFileUpload that has not been made
IdleUpload == [pc |-> "idle", name |-> NoName, text |-> <<>>, outcome |-> "none"]

\* the state after the first render
Mounted ==
    /\ dates = <<>>
    /\ selectedDate = 0
    /\ startDate = 0
    /\ endDate = 0
    /\ stockCode = ""
    /\ loading = FALSE
    /\ error = ""
    /\ data = NoData
    /\ zipCache = EmptyCache
    /\ queries = [q \in 1..MaxQueries |-> IdleQuery]
    /\ uploads = [u \in 1..MaxUploads |-> IdleUpload]

\* the effect that loads dates.json
\* data.sort((a, b) => b.localeCompare(a)) of the dates the server lists
RECURSIVE SortDescending(_)
SortDescending(ds) ==
    IF ds = {} THEN <<>>
    ELSE LET top == CHOOSE d \in ds : \A e \in ds : e <= d
         IN  <<top>> \o SortDescending(ds \ {top})

LoadDates ==
    /\ dates = <<>>
    /\ LET sortedDates == SortDescending(DOMAIN world)
       IN  /\ dates' = sortedDates
           /\ startDate' = sortedDates[1]
           /\ endDate' = sortedDates[1]
    /\ UNCHANGED <<selectedDate, stockCode, loading, error, data, zipCache, world,
                   queries, uploads, parseVars, aggVars, locVars, decVars>>

SetStartDate(d) ==
    /\ d \in { dates[i] : i \in 1..Len(dates) }
    /\ d # startDate
    /\ startDate' = d
    /\ UNCHANGED <<dates, selectedDate, endDate, stockCode, loading, error, data,
                   zipCache, world, queries, uploads, parseVars, aggVars, locVars, decVars>>

SetEndDate(d) ==
    /\ d \in { dates[i] : i \in 1..Len(dates) }
    /\ d # endDate
    /\ endDate' = d
    /\ UNCHANGED <<dates, selectedDate, startDate, stockCode, loading, error, data,
                   zipCache, world, queries, uploads, parseVars, aggVars, locVars, decVars>>

SetStockCode(c) ==
    /\ c # stockCode
    /\ stockCode' = c
    /\ UNCHANGED <<dates, selectedDate, startDate, endDate, loading, error, data,
                   zipCache, world, queries, uploads, parseVars, aggVars, locVars, decVars>>

Min(a, b) == IF a < b THEN a ELSE b

TargetDatesWholeIndex(ds, from, to) == ds

\* dates.filter(d => d >= startDate && d <= endDate)
TargetDates(ds, from, to) == SelectSeq(ds, LAMBDA d : d >= from /\ d <= to)

\* where a date's task stands once it holds the archive: the file is read, or
\* the task returns because no name matches
AfterZip(date, code) ==
    IF LocateFile(world[date].entries, date, code) = NoFile THEN "done" ELSE "read"

\* a date's task up to its first await
StartSub(cache, date, code) ==
    IF cache[date] # 0 THEN AfterZip(date, code) ELSE "fetch"

SkipDateDropsRows(qr, d) ==
    [qr EXCEPT !.sub[d] = "done", !.skipped = @ \cup {d},
               !.allRows = <<>>, !.origin = <<>>]

SkipDateNeverSettles(qr, d) == [qr EXCEPT !.skipped = @ \cup {d}]

\* the task of a date returns early, or its catch logs what was thrown: the
\* task settles and nothing else changes (skipped is history)
SkipDate(qr, d) == [qr EXCEPT !.sub[d] = "done", !.skipped = @ \cup {d}]

RECURSIVE SkipDates(_, _)
SkipDates(qr, ds) ==
    IF ds = {} THEN qr
    ELSE LET d == CHOOSE e \in ds : TRUE
         IN  SkipDates(SkipDate(qr, d), ds \ {d})

\* the task of a date that holds the archive
Located(qr, d) ==
    IF AfterZip(d, qr.code) = "done" THEN SkipDate(qr, d)
    ELSE [qr EXCEPT !.sub[d] = "read"]

\* batch.map(async (date) => ...) for the batch that starts at qr.next
StartBatch(qr) ==
    LET last == Min(qr.next + BATCH_SIZE - 1, Len(qr.targets))
        batch == { qr.targets[i] : i \in qr.next..last }
        started ==
            [qr EXCEPT !.pc = "wait",
                   !.next = qr.next + BATCH_SIZE,
                   !.sub = [d \in AllDates |->
                               IF d \in batch THEN StartSub(qr.snap, d, qr.code)
                               ELSE qr.sub[d]],
                   \* history: the dates fetched although the cache holds them
                   !.refetch = @ \cup { d \in batch : qr.snap[d] = 0 /\ zipCache[d] # 0 }]
    IN  SkipDates(started, { d \in batch : started.sub[d] = "done" })

\* the calls that await, and those that have returned
InFlight == { p \in 1..MaxQueries : queries[p].pc = "wait" }
EndedQueries == { p \in 1..MaxQueries : queries[p].pc = "done" }

CanSearchAlways(code, from, to) == TRUE

\* the negation of !stockCode || !startDate || !endDate
CanSearch(code, from, to) == code # "" /\ from # 0 /\ to # 0

\* handleSearch returns at its guard (ignored is history, kept until the next
\* call passes the guard)
SubmitIgnored(q) ==
    /\ queries[q].pc = "idle"
    /\ \A p \in 1..(q - 1) : queries[p].pc # "idle"
    /\ ~CanSearch(stockCode, startDate, endDate)
    /\ ~queries[q].ignored
    /\ queries' = [queries EXCEPT ![q].ignored = TRUE]
    /\ UNCHANGED <<dates, selectedDate, startDate, endDate, stockCode, loading,
                   error, data, zipCache, world, uploads, parseVars, aggVars, locVars, decVars>>

\* handleSearch up to its first await
Submit(q) ==
    /\ queries[q].pc = "idle"
    /\ \A p \in 1..(q - 1) : queries[p].pc # "idle"
    /\ CanSearch(stockCode, startDate, endDate)
    /\ LET targets == TargetDates(dates, startDate, endDate)
           \* history: the queries in flight at the submission
           qr == [IdleQuery EXCEPT !.code = stockCode, !.targets = targets,
                                   !.snap = zipCache, !.during = InFlight]
       IN  IF targets = <<>>
           THEN /\ loading' = FALSE
                /\ error' = "No valid dates found in range"
                /\ data' = NoData
                /\ queries' = [queries EXCEPT ![q] =
                                  [qr EXCEPT !.pc = "done", !.outcome = "error",
                                             !.after = EndedQueries]]
           ELSE /\ loading' = TRUE
                /\ error' = ""
                /\ data' = NoData
                /\ queries' = [queries EXCEPT ![q] = StartBatch(qr)]
    /\ UNCHANGED <<dates, selectedDate, startDate, endDate, stockCode, zipCache,
                   world, uploads, parseVars, aggVars, locVars, decVars>>

\* fetch settles with a response
FetchDone(q, d) ==
    /\ queries[q].sub[d] = "fetch"
    /\ queries' = [queries EXCEPT ![q] =
                      IF world[d].ok THEN [@ EXCEPT !.sub[d] = "load"]
                      ELSE SkipDate(@, d)]
    /\ UNCHANGED <<dates, selectedDate, startDate, endDate, stockCode, loading,
                   error, data, zipCache, world, uploads, parseVars, aggVars, locVars, decVars>>

CachePutFresh(prev, d, zip) == [EmptyCache EXCEPT ![d] = zip]

\* prev => new Map(prev).set(date, zip)
CachePut(prev, d, zip) == [prev EXCEPT ![d] = zip]

\* response.blob() and JSZip.loadAsync settle: the handle is cached, the file located
LoadDone(q, d) ==
    /\ queries[q].sub[d] = "load"
    /\ zipCache' = CachePut(zipCache, d, q)
    /\ queries' = [queries EXCEPT ![q] =
            Located([@ EXCEPT
                \* history: the dates loaded, and those that held another handle
                !.loaded = @ \cup {d},
                !.recached = @ \cup (IF zipCache[d] \notin {0, q} THEN {d} ELSE {})], d)]
    /\ UNCHANGED <<dates, selectedDate, startDate, endDate, stockCode, loading,
                   error, data, world, uploads, parseVars, aggVars, locVars, decVars>>

\* the rows of each ledger: the marker decides the parser
DayRows == [t \in LedgerTexts \cup {<<>>} |-> ParseDetected(t)]

PushRowsInFront(qr, d, dayRows) ==
    [qr EXCEPT !.allRows = dayRows \o @,
               !.origin = [i \in 1..Len(dayRows) |-> d] \o @]

PushRowsInterleaved(qr, d, dayRows) ==
    LET from == [i \in 1..Len(dayRows) |-> d]
    IN  IF qr.allRows = <<>>
        THEN [qr EXCEPT !.allRows = dayRows, !.origin = from]
        ELSE [qr EXCEPT !.allRows = <<Head(@)>> \o dayRows \o Tail(@),
                        !.origin = <<Head(@)>> \o from \o Tail(@)]

\* for (const row of dayRows) allRows.push(row): no await inside the loop
\* (origin is history: the date each row came from)
PushRows(qr, d, dayRows) ==
    [qr EXCEPT !.allRows = @ \o dayRows,
               !.origin = @ \o [i \in 1..Len(dayRows) |-> d]]

\* file.async settles: the text is decoded, parsed, its rows pushed
ReadDone(q, d) ==
    /\ queries[q].sub[d] = "read"
    /\ queries' = [queries EXCEPT ![q] =
           [PushRows(@, d, DayRows[world[d].text]) EXCEPT !.sub[d] = "done"]]
    /\ UNCHANGED <<dates, selectedDate, startDate, endDate, stockCode, loading,
                   error, data, zipCache, world, uploads, parseVars, aggVars, locVars, decVars>>

\* an await of the task rejects: the catch of the task logs and the date is skipped
SubFail(q, d) ==
    /\ queries[q].sub[d] \in {"fetch", "load", "read"}
    /\ queries' = [queries EXCEPT ![q] = SkipDate(@, d)]
    /\ UNCHANGED <<dates, selectedDate, startDate, endDate, stockCode, loading,
                   error, data, zipCache, world, uploads, parseVars, aggVars, locVars, decVars>>

\* setData(processedData): by is history, the call that set it
PublishedOf(q, r) ==
    [set |-> TRUE, by |-> q, details |-> r.details, summary |-> r.summary]

Published(q, rs) == PublishedOf(q, ProcessStockData(rs))

\* the row lists a query may have gathered from the ledgers of n dates, and what
\* processStockData returns for each
RECURSIVE GatheredRows(_)
GatheredRows(n) ==
    IF n = 0 THEN {<<>>}
    ELSE LET less == GatheredRows(n - 1)
         IN  less \cup { a \o DayRows[t] : a \in less, t \in LedgerTexts }

Aggregated == [rs \in GatheredRows(MaxDates) |-> ProcessStockData(rs)]

BatchSettledAny(qr) == \E d \in AllDates : qr.sub[d] = "done"

\* Promise.all resolves once every task of the batch has settled
BatchSettled(qr) == \A d \in AllDates : qr.sub[d] \in {"idle", "done"}

\* Promise.all of the batch settles: the next batch starts, or the query ends
BatchDone(q) ==
    /\ queries[q].pc = "wait"
    /\ BatchSettled(queries[q])
    /\ IF queries[q].next <= Len(queries[q].targets)
       THEN /\ queries' = [queries EXCEPT ![q] = StartBatch(queries[q])]
            /\ UNCHANGED <<loading, error, data>>
       ELSE /\ loading' = FALSE
            /\ IF queries[q].allRows = <<>>
               THEN /\ error' = "Stock not found in selected range"
                    /\ data' = data
                    /\ queries' = [queries EXCEPT ![q].pc = "done",
                                                  ![q].after = EndedQueries,
                                                  ![q].outcome = "error"]
               ELSE /\ data' = PublishedOf(q, Aggregated[queries[q].allRows])
                    /\ error' = error
                    /\ queries' = [queries EXCEPT ![q].pc = "done",
                                                  ![q].after = EndedQueries,
                                                  ![q].outcome = "data"]
    /\ UNCHANGED <<dates, selectedDate, startDate, endDate, stockCode, zipCache,
                   world, uploads, parseVars, aggVars, locVars, decVars>>

-----------------------------------------------------------------------------
(* handleFileUpload *)

\* the texts of the files the user may pick, the rows of each and what
\* processStockData returns for them
UploadTexts == {LedgerNoRows, LedgerTwoRows}
UploadTable == [t \in UploadTexts |-> UploadRows(t)]
UploadAggregated == [t \in UploadTexts |-> ProcessStockData(UploadTable[t])]

\* file.name.replace('.csv', '')
WithoutCsv(name) == CASE name = "2330.csv" -> TheCode

\* the calls of handleFileUpload whose reader has not fired
Reading == { u \in 1..MaxUploads : uploads[u].pc = "reading" }

\* handleFileUpload with a file chosen, up to reader.readAsArrayBuffer(file)
Upload(u, name, t) ==
    /\ uploads[u].pc = "idle"
    /\ \A v \in 1..(u - 1) : uploads[v].pc # "idle"
    /\ loading' = TRUE
    /\ error' = ""
    /\ data' = NoData
    /\ uploads' = [uploads EXCEPT ![u] =
           [pc |-> "reading", name |-> name, text |-> t, outcome |-> "none"]]
    /\ UNCHANGED <<dates, selectedDate, startDate, endDate, stockCode, zipCache,
                   world, queries, parseVars, aggVars, locVars, decVars>>

\* reader.onload: the text is decoded and parsed, the result or the error is set
UploadLoaded(u) ==
    /\ uploads[u].pc = "reading"
    /\ LET rs == UploadTable[uploads[u].text]
       IN  IF rs = <<>>
           THEN /\ error' = "Failed to parse CSV: No valid data found in CSV"
                /\ uploads' = [uploads EXCEPT ![u].pc = "done", ![u].outcome = "error"]
                /\ UNCHANGED <<data, stockCode>>
           ELSE /\ data' = PublishedOf(0 - u, UploadAggregated[uploads[u].text])
                /\ stockCode' = WithoutCsv(uploads[u].name)
                /\ uploads' = [uploads EXCEPT ![u].pc = "done", ![u].outcome = "data"]
                /\ error' = error
    /\ loading' = FALSE
    /\ UNCHANGED <<dates, selectedDate, startDate, endDate, zipCache, world,
                   queries, parseVars, aggVars, locVars, decVars>>

\* the reader fires error or abort: no handler is set for either, nothing runs
UploadReadFails(u) ==
    /\ uploads[u].pc = "reading"
    /\ uploads' = [uploads EXCEPT ![u].pc = "failed"]
    /\ UNCHANGED <<dates, selectedDate, startDate, endDate, stockCode, loading,
                   error, data, zipCache, world, queries, parseVars, aggVars,
                   locVars, decVars>>

-----------------------------------------------------------------------------
(* The single-date dashboard *)

\* Papa.parse(csvText, {header: false, skipEmptyLines: true}) on a text
\* without quotes: the lines that are not empty, each split at the commas
PapaParse(t) ==
    LET ls == SelectSeq(SplitLines(t), LAMBDA l : l # <<>>)
    IN  IF t = <<>> THEN <<>>
        ELSE [i \in 1..Len(ls) |-> SplitOn(ls[i], ",", <<>>, <<>>)]

\* row[k], the empty string standing for undefined
Cell(row, k) == IF k + 1 <= Len(row) THEN row[k + 1] ELSE <<>>

\* the index of the first of the ten leading rows that names the broker
\* column, 0 when there is none
RECURSIVE HeaderIndex(_, _)
HeaderIndex(rs, i) ==
    IF i > Min(10, Len(rs)) THEN 0
    ELSE IF Includes(Cell(rs[i], 1), <<"QS">>) THEN i
    ELSE HeaderIndex(rs, i + 1)

\* s.replace(/^\d+/, '').trim()
BrokerName(s) == Trim(SubSeq(s, Len(DigitPrefix(s)) + 1, Len(s)))

\* parseFloat(s) || 0 for a price, in hundredths
PriceOrZero(s) == LET f == JsParseFloat(s) IN IF f.nan THEN Num(0) ELSE f

\* parseFloat(s) || 0 for a volume: the ledgers hold whole volumes
VolumeOrZero(s) == LET f == JsParseFloat(s) IN IF f.nan THEN 0 ELSE f.v \div 100

PapaRow(row, k) ==
    [broker |-> BrokerName(Cell(row, k)), price |-> PriceOrZero(Cell(row, k + 1)),
     buyVol |-> VolumeOrZero(Cell(row, k + 2)),
     sellVol |-> VolumeOrZero(Cell(row, k + 3))]

PapaLineRows(row) ==
    (IF Cell(row, 1) # <<>> THEN <<PapaRow(row, 1)>> ELSE <<>>)
    \o (IF Len(row) > 6 /\ Cell(row, 7) # <<>> THEN <<PapaRow(row, 7)>> ELSE <<>>)

RECURSIVE PapaLoop(_, _, _)
PapaLoop(rs, i, acc) ==
    IF i > Len(rs) THEN acc ELSE PapaLoop(rs, i + 1, acc \o PapaLineRows(rs[i]))

\* parseDoubleColumnCSV of the dashboard
ParseDoubleColumnPapa(t) ==
    LET rs == PapaParse(t)
        h == HeaderIndex(rs, 1)
    IN  IF h = 0 THEN <<>> ELSE PapaLoop(rs, h + 1, <<>>)

SingleTexts == {<<>>, LedgerNoRows, LedgerTwoRows}
SingleRows == [t \in SingleTexts |-> ParseDoubleColumnPapa(t)]

SingleLoadDates ==
    /\ dates = <<>>
    /\ dates' = DateIndex
    /\ selectedDate' = DateIndex[1]
    /\ UNCHANGED <<startDate, endDate, stockCode, loading, error, data, zipCache,
                   world, queries, uploads, parseVars, aggVars, locVars, decVars>>

SetSelectedDate(d) ==
    /\ d \in { dates[i] : i \in 1..Len(dates) }
    /\ d # selectedDate
    /\ selectedDate' = d
    /\ UNCHANGED <<dates, startDate, endDate, stockCode, loading, error, data,
                   zipCache, world, queries, uploads, parseVars, aggVars, locVars, decVars>>

\* the catch and the finally of handleSearch
SingleThrow(q, qr, msg) ==
    /\ error' = msg
    /\ loading' = FALSE
    /\ queries' = [queries EXCEPT ![q] =
                      [qr EXCEPT !.pc = "done", !.outcome = "error",
                                 !.sub = [d \in AllDates |-> "idle"]]]

\* zip.file(`${selectedDate}/${stockCode}.csv`): read it, or throw
SingleLocate(q, qr, d) ==
    IF LocateFileFolderOnly(world[d].entries, d, qr.code) = NoFile
    THEN /\ SingleThrow(q, qr, "Stock not found in date data")
         /\ UNCHANGED data
    ELSE /\ queries' = [queries EXCEPT ![q] = [qr EXCEPT !.pc = "wait", !.sub[d] = "read"]]
         /\ UNCHANGED <<data, error, loading>>

\* handleSearch up to its first await
SingleSubmit(q) ==
    /\ queries[q].pc = "idle"
    /\ \A p \in 1..(q - 1) : queries[p].pc # "idle"
    /\ stockCode # "" /\ selectedDate # 0
    /\ LET qr == [IdleQuery EXCEPT !.code = stockCode, !.targets = <<selectedDate>>,
                                   !.snap = zipCache, !.pc = "wait"]
       IN  IF zipCache[selectedDate] # 0
           THEN IF LocateFileFolderOnly(world[selectedDate].entries, selectedDate,
                                        stockCode) = NoFile
                THEN /\ SingleThrow(q, qr, "Stock not found in date data")
                     /\ data' = NoData
                ELSE /\ queries' = [queries EXCEPT ![q] =
                                       [qr EXCEPT !.sub[selectedDate] = "read"]]
                     /\ loading' = TRUE
                     /\ error' = ""
                     /\ data' = NoData
           ELSE /\ queries' = [queries EXCEPT ![q] =
                                  [qr EXCEPT !.sub[selectedDate] = "fetch"]]
                /\ loading' = TRUE
                /\ error' = ""
                /\ data' = NoData
    /\ UNCHANGED <<dates, selectedDate, startDate, endDate, stockCode, zipCache,
                   world, uploads, parseVars, aggVars, locVars, decVars>>

SingleFetchDone(q, d) ==
    /\ queries[q].sub[d] = "fetch"
    /\ IF world[d].ok
       THEN /\ queries' = [queries EXCEPT ![q].sub[d] = "load"]
            /\ UNCHANGED <<error, loading>>
       ELSE SingleThrow(q, queries[q], "ZIP file not found")
    /\ UNCHANGED <<dates, selectedDate, startDate, endDate, stockCode, data,
                   zipCache, world, uploads, parseVars, aggVars, locVars, decVars>>

SingleLoadDone(q, d) ==
    /\ queries[q].sub[d] = "load"
    /\ zipCache' = CachePut(zipCache, d, q)
    /\ SingleLocate(q, queries[q], d)
    /\ UNCHANGED <<dates, selectedDate, startDate, endDate, stockCode, world,
                   uploads, parseVars, aggVars, locVars, decVars>>

\* file.async settles: the text is decoded, parsed, aggregated and published
SingleReadDone(q, d) ==
    /\ queries[q].sub[d] = "read"
    /\ LET rs == SingleRows[world[d].text]
       IN  /\ data' = Published(q, rs)
           /\ queries' = [queries EXCEPT ![q].pc = "done", ![q].sub[d] = "done",
                                         ![q].allRows = rs,
                                         ![q].origin = [i \in 1..Len(rs) |-> d],
                                         ![q].outcome = "data"]
    /\ loading' = FALSE
    /\ UNCHANGED <<dates, selectedDate, startDate, endDate, stockCode, error,
                   zipCache, world, uploads, parseVars, aggVars, locVars, decVars>>

\* an await rejects
SingleFail(q, d) ==
    /\ queries[q].sub[d] \in {"fetch", "load", "read"}
    /\ SingleThrow(q, queries[q], "Error loading data")
    /\ UNCHANGED <<dates, selectedDate, startDate, endDate, stockCode, data,
                   zipCache, world, uploads, parseVars, aggVars, locVars, decVars>>

-----------------------------------------------------------------------------
(* The specifications *)

NextParse == RunDouble \/ RunOTC \/ RunDetected \/ RunUpload

InitParse == DrawText /\ IdleAgg /\ IdleLocate /\ IdleHook /\ IdleDecode

SpecParse == InitParse /\ [][NextParse]_vars

NextAgg == Aggregate \/ AggregateAgain

NextOrder == Aggregate \/ AggregatePermuted

InitOrder == DrawOrderRows /\ IdleParse /\ IdleLocate /\ IdleHook /\ IdleDecode

SpecOrder == InitOrder /\ [][NextOrder]_vars

InitAgg == DrawRows /\ IdleParse /\ IdleLocate /\ IdleHook /\ IdleDecode

NextLocate == RunLocate \/ RunLocateFolderOnly

InitLocate == DrawArchive /\ IdleParse /\ IdleAgg /\ IdleHook /\ IdleDecode

SpecLocate == InitLocate /\ [][NextLocate]_vars

NextDecode == RunDecode \/ RunDecodeLoose

InitDecode == DrawBytes /\ IdleParse /\ IdleAgg /\ IdleLocate /\ IdleHook

SpecDecode == InitDecode /\ [][NextDecode]_vars

NextSearch ==
    \/ LoadDates
    \/ \E d \in DateSet : SetStartDate(d)
    \/ \E d \in DateSet : SetEndDate(d)
    \/ \E c \in StockCodes \cup {""} : SetStockCode(c)
    \/ \E q \in 1..MaxQueries : SubmitIgnored(q)
    \/ \E q \in 1..MaxQueries : Submit(q)
    \/ \E q \in 1..MaxQueries, d \in DateSet : FetchDone(q, d)
    \/ \E q \in 1..MaxQueries, d \in DateSet : LoadDone(q, d)
    \/ \E q \in 1..MaxQueries, d \in DateSet : ReadDone(q, d)
    \/ \E q \in 1..MaxQueries, d \in DateSet : SubFail(q, d)
    \/ \E q \in 1..MaxQueries : BatchDone(q)

InitSearch ==
    /\ Mounted
    /\ world \in Worlds([d \in DateSet |-> ArchiveKinds(d, RocNames(d), SearchTexts)])
    /\ IdleParse /\ IdleAgg /\ IdleLocate
    /\ IdleDecode

SpecSearch == InitSearch /\ [][NextSearch]_vars

\* searches and uploads of one page, the index holding one date.  What the
\* browser and the server owe the page is fair: a fetch, an archive load, a
\* file read settles one way or the other, the continuation of a settled
\* Promise.all runs, and a FileReader fires load or error.
LiveDate == DateIndex[1]

NextLive ==
    \/ LoadDates
    \/ \E c \in StockCodes \cup {""} : SetStockCode(c)
    \/ \E q \in 1..MaxQueries : Submit(q)
    \/ \E q \in 1..MaxQueries : FetchDone(q, LiveDate)
    \/ \E q \in 1..MaxQueries : LoadDone(q, LiveDate)
    \/ \E q \in 1..MaxQueries : ReadDone(q, LiveDate)
    \/ \E q \in 1..MaxQueries : SubFail(q, LiveDate)
    \/ \E q \in 1..MaxQueries : BatchDone(q)
    \/ \E u \in 1..MaxUploads, name \in UploadNames, t \in UploadTexts : Upload(u, name, t)
    \/ \E u \in 1..MaxUploads : UploadLoaded(u)
    \/ \E u \in 1..MaxUploads : UploadReadFails(u)

InitLive ==
    /\ Mounted
    /\ world \in Worlds([d \in {LiveDate} |-> ArchiveKinds(d, RocNames(d), SearchTexts)])
    /\ IdleParse /\ IdleAgg /\ IdleLocate
    /\ IdleDecode

\* a step of the browser: something the page waits for settles
Settles ==
    \/ \E q \in 1..MaxQueries :
          \/ FetchDone(q, LiveDate)
          \/ LoadDone(q, LiveDate)
          \/ ReadDone(q, LiveDate)
          \/ SubFail(q, LiveDate)
          \/ BatchDone(q)
    \/ \E u \in 1..MaxUploads : UploadLoaded(u) \/ UploadReadFails(u)

\* while the page waits for something, something settles in the end
FairLive == WF_vars(Settles)

SpecLive == InitLive /\ [][NextLive]_vars /\ FairLive

\* the index is one date longer than a batch: the five newer dates have no
\* archive, the oldest has any; the range starts or ends at the oldest date
NextBatch ==
    \/ LoadDates
    \/ SetStartDate(BatchIndex[BATCH_SIZE + 1])
    \/ SetEndDate(BatchIndex[BATCH_SIZE + 1])
    \/ \E c \in StockCodes \cup {""} : SetStockCode(c)
    \/ \E q \in 1..MaxQueries : Submit(q)
    \/ \E q \in 1..MaxQueries, d \in BatchDateSet : FetchDone(q, d)
    \/ \E q \in 1..MaxQueries, d \in BatchDateSet : LoadDone(q, d)
    \/ \E q \in 1..MaxQueries, d \in BatchDateSet : ReadDone(q, d)
    \/ \E q \in 1..MaxQueries, d \in BatchDateSet : SubFail(q, d)
    \/ \E q \in 1..MaxQueries : BatchDone(q)

BatchKinds(d) ==
    IF d = BatchIndex[BATCH_SIZE + 1] THEN ArchiveKinds(d, RocNames(d), LedgerTexts)
    ELSE {[ok |-> FALSE, entries |-> {}, text |-> <<>>]}

InitBatch ==
    /\ Mounted
    /\ world \in Worlds([d \in BatchDateSet |-> BatchKinds(d)])
    /\ IdleParse /\ IdleAgg /\ IdleLocate
    /\ IdleDecode

SpecBatch == InitBatch /\ [][NextBatch]_vars

NextSingle ==
    \/ SingleLoadDates
    \/ \E d \in DateSet : SetSelectedDate(d)
    \/ \E c \in StockCodes \cup {""} : SetStockCode(c)
    \/ \E q \in 1..MaxQueries : SingleSubmit(q)
    \/ \E q \in 1..MaxQueries, d \in DateSet : SingleFetchDone(q, d)
    \/ \E q \in 1..MaxQueries, d \in DateSet : SingleLoadDone(q, d)
    \/ \E q \in 1..MaxQueries, d \in DateSet : SingleReadDone(q, d)
    \/ \E q \in 1..MaxQueries, d \in DateSet : SingleFail(q, d)

InitSingle ==
    /\ Mounted
    /\ world \in Worlds([d \in DateSet |-> ArchiveKinds(d, FolderNames(d), SingleTexts)])
    /\ IdleParse /\ IdleAgg /\ IdleLocate
    /\ IdleDecode

SpecSingle == InitSingle /\ [][NextSingle]_vars

SpecAgg == InitAgg /\ [][NextAgg]_vars

-----------------------------------------------------------------------------
(* Properties of processStockData, checked under SpecAgg *)

RECURSIVE SumBuy(_)
SumBuy(seq) == IF seq = <<>> THEN 0 ELSE Head(seq).buyVol + SumBuy(Tail(seq))

RECURSIVE SumSell(_)
SumSell(seq) == IF seq = <<>> THEN 0 ELSE Head(seq).sellVol + SumSell(Tail(seq))

RowsOf(seq, broker) == SelectSeq(seq, LAMBDA r : r.broker = broker)

BrokersOf(seq) == { seq[i].broker : i \in 1..Len(seq) }

Returned == aggPc # "start"

\* C2: the buy volumes of the summary add up to the buy volumes of the
\* details, and so do the sell volumes.
C2_VolumeConserved ==
    Returned =>
        /\ SumBuy(result.summary) = SumBuy(result.details)
        /\ SumSell(result.summary) = SumSell(result.details)

\* several rows of one broker and a second broker were folded
C2_Witness ==
    /\ Returned
    /\ Len(result.summary) = 2
    /\ Len(result.details) = 3
    /\ SumBuy(result.details) > 0
    /\ SumSell(result.details) > 0

\* C3: the summary holds one entry for each broker of the input, no entry
\* twice and none for a broker that is not in the input.
C3_OneEntryPerBroker ==
    Returned =>
        /\ BrokersOf(result.summary) = BrokersOf(rawRows)
        /\ Len(result.summary) = Cardinality(BrokersOf(rawRows))

\* a broker seen three times has one entry
C3_Witness ==
    /\ Returned
    /\ Len(rawRows) = 3
    /\ Len(result.summary) = 1

\* C4: every entry has netVol = buyVol - sellVol and netAmt = buyAmt - sellAmt
\* (NaN when an amount is NaN), and buyVol and sellVol are the totals over
\* all rows of the broker.
C4_NetFromFinalTotals ==
    Returned =>
        \A i \in 1..Len(result.summary) :
            LET e == result.summary[i]
                mine == RowsOf(result.details, e.broker)
            IN  /\ e.buyVol = SumBuy(mine)
                /\ e.sellVol = SumSell(mine)
                /\ e.netVol = e.buyVol - e.sellVol
                /\ e.netAmt = FSub(e.buyAmt, e.sellAmt)

\* a broker with two rows whose net figures are not zero
C4_Witness ==
    /\ Returned
    /\ \E i \in 1..Len(result.summary) :
          LET e == result.summary[i]
          IN  /\ Len(RowsOf(result.details, e.broker)) = 2
              /\ e.netVol < 0
              /\ ~e.netAmt.nan
              /\ e.netAmt.v < 0

\* C5: the summary is sorted non-increasing by netVol.
C5_SortedByNetVol ==
    Returned =>
        \A i \in 1..(Len(result.summary) - 1) :
            result.summary[i].netVol >= result.summary[i + 1].netVol

\* the broker seen first has the smaller netVol, so the sort moved it back
C5_Witness ==
    /\ Returned
    /\ Len(result.summary) = 2
    /\ result.summary[2].broker = rawRows[1].broker
    /\ result.summary[1].netVol > result.summary[2].netVol

\* the quotient q is exactly amt / vol
IsQuotient(q, amt, vol) ==
    IF amt.nan THEN q.nan
    ELSE ~q.nan /\ q.d > 0 /\ q.n * vol = amt.v * q.d

\* C6: avgBuyPrice is buyAmt / buyVol when buyVol > 0 and 0 when buyVol is 0;
\* avgSellPrice is sellAmt / sellVol when sellVol > 0 and 0 otherwise.
C6_AveragePrices ==
    Returned =>
        \A i \in 1..Len(result.summary) :
            LET e == result.summary[i]
            IN  /\ e.buyVol > 0 => IsQuotient(e.avgBuyPrice, e.buyAmt, e.buyVol)
                /\ e.buyVol = 0 => e.avgBuyPrice = RatioZero
                /\ e.sellVol > 0 => IsQuotient(e.avgSellPrice, e.sellAmt, e.sellVol)
                /\ e.sellVol <= 0 => e.avgSellPrice = RatioZero

\* one entry averaged over rows of two prices, another with zero volumes
C6_Witness ==
    /\ Returned
    /\ \E i, j \in 1..Len(result.summary) :
          /\ result.summary[i].buyVol = 3
          /\ result.summary[i].sellVol = 6
          /\ result.summary[i].avgBuyPrice = Ratio(2300, 3)
          /\ result.summary[i].avgSellPrice = Ratio(1025, 3)
          /\ result.summary[j].buyVol = 0
          /\ result.summary[j].avgBuyPrice = RatioZero

-----------------------------------------------------------------------------
(* Properties of the parsers, checked under SpecParse *)

Parsed == parsedBy # "none"

\* C8: no emitted row carries NaN: a numeric cell that cannot be parsed reads 0.
C8_NoNaNInRows ==
    Parsed => \A i \in 1..Len(rows) : ~rows[i].price.nan

RECURSIVE Concat(_)
Concat(seqs) == IF seqs = <<>> THEN <<>> ELSE Head(seqs) \o Concat(Tail(seqs))

\* the rows C9 gives one ledger line: a left row iff there are five fields and
\* field 1 is not blank, a right row iff there are eleven and field 7 is not blank
LedgerLineRows(line) ==
    LET f == SplitOn(line, ",", <<>>, <<>>)
        left == Len(f) >= 5 /\ Trim(f[2]) # <<>>
        right == Len(f) >= 11 /\ Trim(f[8]) # <<>>
    IN  (IF left THEN <<Row(Trim(f[2]), f[3], f[4], f[5])>> ELSE <<>>)
        \o (IF right THEN <<Row(Trim(f[8]), f[9], f[10], f[11])>> ELSE <<>>)

RowsOfLines(ls) == Concat([i \in 1..Len(ls) |-> LedgerLineRows(ls[i])])

DropFirst(ls) == IF ls = <<>> THEN <<>> ELSE Tail(ls)

\* C9 as stated: the first line of the text is the header, and every non-blank
\* line after it yields its left and right rows.
C9_FirstLineIsHeader ==
    parsedBy = "double" => rows = RowsOfLines(NonBlank(DropFirst(SplitLines(text))))

\* C9 amended: the first non-blank line is the header, and every non-blank
\* line after it yields its left row iff it has five fields and a non-blank
\* field 1, then its right row iff it has eleven fields and a non-blank field 7.
C9_FirstNonBlankLineIsHeader ==
    parsedBy = "double" => rows = RowsOfLines(DropFirst(NonBlank(SplitLines(text))))

\* a text that starts with a blank line, a header and a line of two rows
C9_Witness ==
    /\ parsedBy = "double"
    /\ Len(SplitLines(text)) = 3
    /\ Trim(SplitLines(text)[1]) = <<>>
    /\ Len(rows) = 2
    /\ rows[1].broker = <<"A">>
    /\ rows[2].broker = <<"B">>

\* the fields of an OTC line as the parser cleans them: trimmed, then one
\* leading and one trailing quote removed
CleanFields(line) ==
    LET f == SplitOn(line, ",", <<>>, <<>>)
    IN  [i \in 1..Len(f) |-> StripQuotes(Trim(f[i]))]

\* the row C10 gives one OTC data line
OTCDataRows(line) ==
    LET f == CleanFields(line)
    IN  IF Len(f) >= 5 /\ f[2] # <<>> THEN <<Row(f[2], f[3], f[4], f[5])>> ELSE <<>>

OTCRowsOfLines(ls) == Concat([i \in 1..Len(ls) |-> OTCDataRows(ls[i])])

HasHeader(ls) == \E i \in 1..Len(ls) : Includes(ls[i], OTCHeader)

FirstHeader(ls) ==
    CHOOSE i \in 1..Len(ls) :
        /\ Includes(ls[i], OTCHeader)
        /\ \A j \in 1..(i - 1) : ~Includes(ls[j], OTCHeader)

AfterHeader(ls) ==
    IF HasHeader(ls) THEN SubSeq(ls, FirstHeader(ls) + 1, Len(ls)) ELSE <<>>

\* C10 as stated: only the lines after the first header line are data.
C10_OnlyLinesAfterHeader ==
    parsedBy = "otc" => rows = OTCRowsOfLines(AfterHeader(NonBlank(SplitLines(text))))

\* C10 amended: when a line holds the header sequence, the data lines are the
\* non-blank lines after the first such line; when none does, every non-blank
\* line is a data line.  A data line yields one row iff it has five fields and
\* field 1, trimmed and stripped of its quotes, is not empty.
C10_HeaderOrAllLines ==
    parsedBy = "otc" =>
        LET ls == NonBlank(SplitLines(text))
        IN  rows = OTCRowsOfLines(IF HasHeader(ls) THEN AfterHeader(ls) ELSE ls)

\* a data-like line before the header gives no row, the one after it does
C10_Witness ==
    /\ parsedBy = "otc"
    /\ LET ls == NonBlank(SplitLines(text))
       IN  /\ Len(ls) = 3
           /\ HasHeader(ls)
           /\ FirstHeader(ls) = 2
           /\ OTCDataRows(ls[1]) # <<>>
           /\ rows = OTCDataRows(ls[3])
           /\ Len(rows) = 1

-----------------------------------------------------------------------------
(* Properties of the locator, under SpecLocate *)

FormsOf(date, code) ==
    <<Form1(date, code), Form2(date, code), Form3(date, code),
      Form4(date, code), Form5(date, code)>>

\* the first of the five forms that the archive holds, NoFile when it holds none
FirstExisting(entries, date, code) ==
    LET fs == FormsOf(date, code)
        hits == { i \in 1..5 : fs[i] \in entries }
    IN  IF hits = {} THEN NoFile
        ELSE fs[CHOOSE i \in hits : \A j \in hits : i <= j]

\* C7: whatever the entries of the archive, the locator selects the first of
\* the five path forms, in their fixed order, that exists, and selects no file
\* when none exists.  The older hook tries the first form only.
C7_FirstExistingForm ==
    located.by # "none" => located.file = FirstExisting(archive, locDate, TheCode)

-----------------------------------------------------------------------------
(* Properties of the queries, under SpecSingle and SpecSearch *)

Ended(q) == queries[q].pc = "done"

\* C1: a query that has ended ended in an error exactly when it gathered no
\* records, the data then left null, and in data only when it gathered some; no
\* empty result is ever published.  The single-date dashboard publishes the
\* result of a ledger without rows.
C1_ErrorIffNoRecords ==
    /\ \A q \in 1..MaxQueries :
          Ended(q) =>
             /\ queries[q].allRows = <<>> => queries[q].outcome = "error"
             /\ queries[q].outcome = "data" => queries[q].allRows # <<>>
    /\ data.set => data.details # <<>>

-----------------------------------------------------------------------------
(* Properties of the decoder, under SpecDecode *)

Big5Valid(bs) == Big5Decode(bs, 0, <<>>, TRUE).ok

\* C11: the decoding is the strict Big5 text of the bytes when they are valid
\* Big5, and the UTF-8 text of the same bytes whenever they are not, in every
\* variant.  The older variants decode invalid bytes with the Big5 decoder.
C11_Utf8WhenBig5Invalid ==
    decoded.by # "none" =>
        decoded.text = IF Big5Valid(bytes)
                       THEN Big5Decode(bytes, 0, <<>>, TRUE).text
                       ELSE Utf8Decode(bytes, 0, 0, 128, 191, <<>>)

-----------------------------------------------------------------------------
(* Properties of the archive cache, under SpecSearch and SpecBatch *)

\* C12: once the cache holds the archive of a date, no query fetches that date
\* again.  A batch that starts after the first resolves its dates against the
\* cache of the render that submitted the query, and fetches what an
\* overlapping query has cached since.
C12_NoFetchOnceCached ==
    \A q \in 1..MaxQueries : queries[q].refetch = {}

Settled(q) ==
    /\ queries[q].pc # "idle"
    /\ \A d \in AllDates : queries[q].sub[d] \in {"idle", "done"}

\* the cache keeps what a settled query loaded and what it held at submission
CacheKeepsEntries(q) ==
    Settled(q) =>
        /\ \A d \in queries[q].loaded : zipCache[d] # 0
        /\ \A d \in AllDates : queries[q].snap[d] # 0 => zipCache[d] # 0

\* C13: the cache writes of the tasks lose nothing, and a date is never cached
\* again with a handle other than the one it has.  Two overlapping queries on
\* one date each open the archive, and the second write replaces the handle.
C13_CacheWritesIdempotent ==
    \A q \in 1..MaxQueries : CacheKeepsEntries(q) /\ queries[q].recached = {}

\* C13, as the code has it: the cache writes lose nothing; a date is cached
\* again, with the handle the writing query opened for that date, only by a
\* query that found no entry for the date when it was submitted.
C13_CacheWritesLoseNothing ==
    /\ \A q \in 1..MaxQueries :
          /\ CacheKeepsEntries(q)
          /\ \A d \in queries[q].recached : queries[q].snap[d] = 0
    /\ \A d \in AllDates :
          zipCache[d] # 0 => d \in queries[zipCache[d]].loaded

\* a settled query that was submitted with a cached date, loaded another date,
\* and replaced the handle an overlapping query had stored
C13_Witness ==
    \E q \in 1..MaxQueries :
        /\ Settled(q)
        /\ queries[q].recached # {}
        /\ \E d \in AllDates : queries[q].snap[d] # 0
        /\ \E p \in 1..MaxQueries : p # q /\ queries[p].loaded # {}

-----------------------------------------------------------------------------
(* Properties of the result state, under SpecSearch *)

\* the result state a query leaves when it runs alone
ProducedBy(q) ==
    IF queries[q].outcome = "data"
    THEN data = Published(q, queries[q].allRows) /\ error = ""
    ELSE /\ data = NoData
         /\ error = IF queries[q].targets = <<>>
                    THEN "No valid dates found in range"
                    ELSE "Stock not found in selected range"

\* q returned after every other call that has returned, and none awaits
EndedLast(q) ==
    /\ Ended(q)
    /\ InFlight = {}
    /\ \A p \in EndedQueries \ {q} : p \in queries[q].after

\* C14: when two queries overlapped and both have returned, data and error are
\* what the one that returned last produces.  The first to return leaves its
\* data, or its error, when the last one writes the other of the two.
C14_LastWriterWins ==
    \A q \in 1..MaxQueries, p \in 1..MaxQueries :
        (EndedLast(q) /\ Ended(p) /\ (p \in queries[q].during \/ q \in queries[p].during))
            => ProducedBy(q)

-----------------------------------------------------------------------------
(* Properties of the per-date tasks, under SpecSearch *)

TargetSet(q) == { queries[q].targets[i] : i \in 1..Len(queries[q].targets) }

\* the rows of a date among the rows the query gathered, in their order
RowsFrom(q, d) ==
    LET keep == SelectSeq([i \in 1..Len(queries[q].origin) |-> i],
                          LAMBDA i : queries[q].origin[i] = d)
    IN  [j \in 1..Len(keep) |-> queries[q].allRows[keep[j]]]

\* the dates of the range whose task ran to its end
ReadDates(q) ==
    { d \in TargetSet(q) : queries[q].sub[d] = "done" /\ d \notin queries[q].skipped }

\* C15: a date whose task failed or returned early contributes no rows, the
\* rows of the other dates are all gathered, and the query that has ended is in
\* error only if no date contributed a row.
C15_DateFailureNotFatal ==
    \A q \in 1..MaxQueries :
        /\ \A d \in queries[q].skipped : RowsFrom(q, d) = <<>>
        /\ \A d \in ReadDates(q) : RowsFrom(q, d) = DayRows[world[d].text]
        /\ (Ended(q) /\ queries[q].targets # <<>>) =>
              (queries[q].outcome = "error" <=>
                  \A d \in TargetSet(q) : RowsFrom(q, d) = <<>>)

\* a query ended with data although the task of one of its dates failed
C15_Witness ==
    \E q \in 1..MaxQueries :
        /\ Ended(q)
        /\ queries[q].outcome = "data"
        /\ queries[q].skipped # {}
        /\ \E d \in ReadDates(q) : RowsFrom(q, d) # <<>>

\* C16: a query publishes data only when the task of every date of its range
\* has settled, and the details it publishes hold, for every date whose task
\* ran to its end, the rows of that date's ledger.
C16_DataAfterAllSettled ==
    /\ \A q \in 1..MaxQueries :
          queries[q].outcome = "data" =>
              \A d \in TargetSet(q) : queries[q].sub[d] = "done"
    /\ data.set =>
          /\ queries[data.by].outcome = "data"
          /\ data.details = queries[data.by].allRows
          /\ \A d \in TargetSet(data.by) \ queries[data.by].skipped :
                RowsFrom(data.by, d) = DayRows[world[d].text]

\* the data of a query over two dates that both yielded rows is published
C16_Witness ==
    /\ data.set
    /\ Len(queries[data.by].targets) = 2
    /\ \A d \in TargetSet(data.by) : RowsFrom(data.by, d) # <<>>

-----------------------------------------------------------------------------
(* Properties of the submission, under SpecSearch *)

\* the step in which handleSearch is called and passes its guard
Submitted(q) == queries[q].pc = "idle" /\ queries'[q].pc # "idle"

\* no date of the index lies between the start date and the end date
RangeIsEmpty ==
    \A i \in 1..Len(dates) : ~(dates[i] >= startDate /\ dates[i] <= endDate)

\* C17: a query submitted on a range without a date of the index ends in the
\* same step with an error message and null data, starts no fetch and writes
\* nothing to the cache.
C17_EmptyRangeIsError ==
    [][\A q \in 1..MaxQueries :
          (Submitted(q) /\ RangeIsEmpty) =>
              /\ queries'[q].pc = "done"
              /\ queries'[q].outcome = "error"
              /\ error' # ""
              /\ data' = NoData
              /\ loading' = FALSE
              /\ zipCache' = zipCache
              /\ \A d \in AllDates : queries'[q].sub[d] = "idle"]_vars

\* a query on an empty range has ended in error, the cache of an earlier
\* query untouched
C17_Witness ==
    \E q \in 1..MaxQueries :
        /\ Ended(q)
        /\ queries[q].targets = <<>>
        /\ queries[q].snap # EmptyCache
        /\ zipCache = queries[q].snap
        /\ error = "No valid dates found in range"
        /\ data = NoData

\* a call of handleSearch took place in the step: it returned at the guard, or
\* it passed it
Called(q) ==
    \/ Submitted(q)
    \/ (~queries[q].ignored /\ queries'[q].ignored)

\* C18: a call of handleSearch with an empty stock code, start date or end
\* date starts no query and leaves loading, error, data and the cache as they
\* are; no task is started.
C18_EmptyInputIsIgnored ==
    [][\A q \in 1..MaxQueries :
          (Called(q) /\ (stockCode = "" \/ startDate = 0 \/ endDate = 0)) =>
              /\ queries'[q].pc = "idle"
              /\ UNCHANGED <<loading, error, data, zipCache>>
              /\ \A p \in 1..MaxQueries : queries'[p].sub = queries[p].sub]_vars

\* the stock code was cleared after a query published data, and a search was
\* then submitted and ignored
C18_Witness ==
    \E q \in 1..MaxQueries :
        /\ queries[q].ignored
        /\ queries[q].pc = "idle"
        /\ stockCode = ""
        /\ data.set

-----------------------------------------------------------------------------
(* Further properties of processStockData and of the parsers *)

\* C19: processStockData applied to no rows fails, and never returns a result
\* with empty details and an empty summary.  The function has no such check
\* and returns that result.
C19_EmptyInputFails ==
    Returned => (rawRows # <<>> /\ result # NoResult)

\* C20: every row of either parser has a buy volume and a sell volume that are
\* integers and not negative.  parseInt keeps the sign of the cell.
C20_VolumesNotNegative ==
    Parsed =>
        \A i \in 1..Len(rows) :
            /\ rows[i].buyVol \in Nat
            /\ rows[i].sellVol \in Nat

-----------------------------------------------------------------------------
(* Properties of the upload, under SpecParse *)

\* C21: an uploaded text gives exactly the rows the search gives for a file of
\* the same text.  The upload tries parseOTCcsv where the search stops with
\* no rows.
C21_UploadRowsAsSearch ==
    parsedBy = "upload" => rows = ParseDetected(text)

\* C21, as the code has it: the upload gives the rows of the search whenever
\* the search gives any; when it gives none, the upload gives the rows of
\* parseOTCcsv on the text.
C21_UploadRowsOrRetry ==
    parsedBy = "upload" =>
        rows = IF ParseDetected(text) # <<>> THEN ParseDetected(text)
               ELSE ParseOTCcsv(text)

\* an uploaded text without header line: the search gives no rows, the upload some
C21_Witness ==
    /\ parsedBy = "upload"
    /\ ParseDetected(text) = <<>>
    /\ rows # <<>>

-----------------------------------------------------------------------------
(* Further properties of processStockData, under SpecAgg *)

-----------------------------------------------------------------------------
(* Properties of the order of the details, under SpecSearch *)

\* the place of a date in the range of the query, which follows the index
PlaceOf(q, d) ==
    CHOOSE i \in 1..Len(queries[q].targets) : queries[q].targets[i] = d

\* C23 as stated: the rows a query gathered follow the order of the date
\* index.  The task of the older date may push its rows first.
C23_DetailsInIndexOrder ==
    \A q \in 1..MaxQueries :
        \A i, j \in 1..Len(queries[q].origin) :
            i < j => PlaceOf(q, queries[q].origin[i]) <= PlaceOf(q, queries[q].origin[j])

\* the rows of a query change only when the read of one of its dates settles,
\* and the rows of that date go behind the others
PushedAtCompletion(q) ==
    queries'[q].origin # queries[q].origin =>
        \E d \in AllDates :
            /\ queries[q].sub[d] = "read"
            /\ queries'[q].sub[d] = "done"
            /\ queries'[q].allRows = queries[q].allRows \o DayRows[world[d].text]
            /\ queries'[q].origin =
                  queries[q].origin \o [i \in 1..Len(DayRows[world[d].text]) |-> d]

\* C23: the rows of a query are ordered by the order in which the tasks of its
\* dates complete, each task putting the rows of its file, in their order in
\* the file, behind the rows gathered so far.
C23_DetailsInCompletionOrder ==
    [][\A q \in 1..MaxQueries : queries[q].pc = "wait" => PushedAtCompletion(q)]_vars

\* a query has ended with the rows of the older date before those of the newer
C23_Witness ==
    \E q \in 1..MaxQueries :
        /\ Ended(q)
        /\ \E i, j \in 1..Len(queries[q].origin) :
              i < j /\ PlaceOf(q, queries[q].origin[i]) > PlaceOf(q, queries[q].origin[j])

\* C30: the rows of one date lie side by side among the rows of the query, in
\* their order in the file, whatever the order in which the tasks take their
\* steps.
C30_RowsOfDateContiguous ==
    \A q \in 1..MaxQueries :
        /\ \A i, k \in 1..Len(queries[q].origin) :
              (i < k /\ queries[q].origin[i] = queries[q].origin[k]) =>
                  \A j \in i..k : queries[q].origin[j] = queries[q].origin[i]
        /\ \A d \in TargetSet(q) :
              RowsFrom(q, d) \in {<<>>, DayRows[world[d].text]}

\* a query in flight holds the rows of both dates, two of each
C30_Witness ==
    \E q \in 1..MaxQueries :
        /\ Len(queries[q].targets) = 2
        /\ \A d \in TargetSet(q) : Len(RowsFrom(q, d)) = 2

-----------------------------------------------------------------------------
(* Properties of the aggregation of reordered rows, under SpecOrder *)

SummaryEntries(r) == { r.summary[i] : i \in 1..Len(r.summary) }

\* C24 as stated: the rows in another order give the same entries, with the
\* same volumes and the same amounts.  The amounts are sums of binary64
\* numbers, rounded at every +=, and three prices summed in two orders may
\* differ in the last bit.
C24_SameEntriesAnyOrder ==
    aggPc = "permuted" =>
        /\ SummaryEntries(again) = SummaryEntries(result)
        /\ Amounts64(ZeroAmounts, again.details) = Amounts64(ZeroAmounts, result.details)

\* C24: the rows in another order give the same set of entries: every broker
\* has the same volumes, and amounts that are the same sums of price times
\* volume when the sums are taken exactly.
C24_SameTotalsAnyOrder ==
    aggPc = "permuted" => SummaryEntries(again) = SummaryEntries(result)

\* three rows of two brokers were aggregated in two different orders
C24_Witness ==
    /\ aggPc = "permuted"
    /\ Len(rawRows) = 3
    /\ again.details # result.details
    /\ Len(again.summary) = 2

-----------------------------------------------------------------------------
(* Properties of the batches, under SpecBatch *)

\* the dates of a query whose task has started and has not settled
Running(q) == { d \in AllDates : queries[q].sub[d] \notin {"idle", "done"} }

\* the batch of the i-th date of the range, counted from 0
BatchOf(i) == (i - 1) \div BATCH_SIZE

\* C25: at most BATCH_SIZE tasks of a query have started and not settled, and
\* a task of a later batch has started only if every task of the earlier
\* batches has settled.
C25_BatchesInTurn ==
    \A q \in 1..MaxQueries :
        /\ Cardinality(Running(q)) <= BATCH_SIZE
        /\ \A i, j \in 1..Len(queries[q].targets) :
              (BatchOf(i) < BatchOf(j) /\ queries[q].sub[queries[q].targets[j]] # "idle")
                  => queries[q].sub[queries[q].targets[i]] = "done"

\* the BATCH_SIZE tasks of the first batch of a query have settled and a task
\* of its second batch is running
C25_Witness ==
    \E q \in 1..MaxQueries :
        /\ Len(queries[q].targets) > BATCH_SIZE
        /\ Cardinality(queries[q].skipped) >= BATCH_SIZE
        /\ \E j \in 1..Len(queries[q].targets) :
              BatchOf(j) = 1 /\ queries[q].targets[j] \in Running(q)

-----------------------------------------------------------------------------
(* Properties of loading, data and error when searches and uploads overlap,
   under SpecLive *)

\* C26: data is never set while error is not empty.  A search that publishes
\* its data while an upload reads leaves the data to the error of the upload.
C26_DataOrErrorNotBoth == ~(data.set /\ error # "")

\* C27: loading is TRUE while a search awaits or an upload reads.  The first
\* of two calls to end sets loading to FALSE and the other goes on.
C27_LoadingWhilePending == (InFlight # {} \/ Reading # {}) => loading

\* the step in which handleSearch returns after its awaits
Completes(q) == queries[q].pc = "wait" /\ queries'[q].pc = "done"

\* what the last statements of handleSearch do: setData or else setError, and
\* setLoading(false)
EndsOneWay(q) ==
    /\ loading' = FALSE
    /\ \/ /\ queries'[q].outcome = "data"
          /\ data' = Published(q, queries[q].allRows)
          /\ error' = error
       \/ /\ queries'[q].outcome = "error"
          /\ error' = "Stock not found in selected range"
          /\ data' = data

\* C28: a search that awaits returns in the end, given that every fetch, every
\* archive load and every file read settles; the step in which it returns sets
\* loading to FALSE and sets either the data or the error, not both.
C28_SearchLeavesLoading ==
    /\ \A q \in 1..MaxQueries : (queries[q].pc = "wait") ~> (queries[q].pc = "done")
    /\ [][\A q \in 1..MaxQueries : Completes(q) => EndsOneWay(q)]_vars

\* a search has fetched and read the ledger and has returned with data
C28_Witness ==
    \E q \in 1..MaxQueries :
        /\ Ended(q)
        /\ queries[q].outcome = "data"
        /\ queries[q].loaded # {}

\* C29: an upload that reads ends with loading FALSE and the data or the error
\* set, whether the read succeeds or fails.  When the reader fires error no
\* code of the page runs.
C29_UploadLeavesLoading ==
    \A u \in 1..MaxUploads :
        (uploads[u].pc = "reading") ~>
            (uploads[u].pc = "done" /\ ~loading /\ (data.set \/ error # ""))

=============================================================================
